---- MODULE Spec2Model ----
(***************************************************************************)
(* State and view synchronisation of data_visualizator.                    *)
(*                                                                         *)
(* AppState (state.py) holds the loaded dataset, the target variable and   *)
(* the set of selected features.  The configuration widgets                *)
(* (gui/model_configurator.py) are connected to it with Qt signals.  All   *)
(* connections are direct: emitting a signal runs the slots synchronously, *)
(* and a slot may call back into AppState before the emitter continues.    *)
(* The nesting is modelled with an explicit call stack of program points;  *)
(* a user operation is accepted only when the stack is empty (the event    *)
(* loop is idle).                                                          *)
(***************************************************************************)
EXTENDS Integers, Sequences, FiniteSets, TLC

\* ------------------------------------------------------------------ bounds
MaxCols == 3
MaxEmit == 12
MaxKw == 2
MaxLen == 3
MaxText == 2

\* ------------------------------------------------------------- data values
NamePool == <<"a", "b", "c", "d", "e", "f">>

NoTarget == "no target"

NoneVal == "<None>"

\* a DataFrame is known by its column names; NoDf stands for None
NoDf == [loaded |-> FALSE, name |-> "", columns |-> << >>]

\* column names of the two datasets on disk; they share one column
Columns(d) ==
  CASE d = "d1" -> SubSeq(NamePool, 1, MaxCols)
    [] d = "d2" -> SubSeq(NamePool, MaxCols, MaxCols + 1)
    [] OTHER -> << >>

Dataset(d) == [loaded |-> TRUE, name |-> d, columns |-> Columns(d)]

Names == {NamePool[i] : i \in 1..(MaxCols + 1)}

Range(s) == {s[i] : i \in DOMAIN s}

\* ------------------------------------------------------------------- state
VARIABLES
  df,                        \* AppState._df: a dataset or NoDf
  dataset_path,              \* AppState._dataset_path
  target_var,                \* AppState._target_var
  selected_features,         \* AppState._selected_features
  select_all_features_mode,  \* AppState._select_all_features_mode
  stack_index,               \* ModelConfigGroup.stack current index
  combo,                     \* TargetSelectWidget.target_select_combobox
  fcb,                       \* FeatureCheckBoxes: menu, button, "Select All"
  stack,                     \* pending program points, innermost first
  emitted,                   \* signals emitted since the current operation began
  lastOp,                    \* the operation that began the current cascade
  pre,                       \* AppState fields when that operation began
  refreshToggled,            \* select_all_toggled was emitted by a view refresh
  io,                        \* one call of read_/save_ in core/utils.py
  mp,                        \* one construction of ModelParams
  gf,                        \* one call of AppState.get_features
  tr,                        \* a ModelTrainer and the outcome of its last call
  tv                         \* a DataSetViewer with its PandasModel

appVars == <<df, dataset_path, target_var, selected_features,
             select_all_features_mode>>

viewVars == <<stack_index, combo, fcb>>

ctlVars == <<stack, emitted, lastOp, pre, refreshToggled>>

vars == <<df, dataset_path, target_var, selected_features,
          select_all_features_mode, stack_index, combo, fcb, stack, emitted,
          lastOp, pre, refreshToggled, io, mp, gf, tr, tv>>

\* the components that stand beside AppState
sideVars == <<tr, tv>>

pureVars == <<io, mp, gf, tr, tv>>

\* ------------------------------------------------------- core/utils.py I/O
UpperAlpha == <<"A", "C", "D", "E", "F", "H", "J", "K", "L", "N", "O", "P",
                "Q", "R", "S", "T", "U", "V", "X">>

LowerAlpha == <<"a", "c", "d", "e", "f", "h", "j", "k", "l", "n", "o", "p",
                "q", "r", "s", "t", "u", "v", "x">>

\* str.lower() on one character: letters are folded, the rest is kept
LowerChar(ch) ==
  IF \E i \in DOMAIN UpperAlpha : UpperAlpha[i] = ch
    THEN LowerAlpha[CHOOSE i \in DOMAIN UpperAlpha : UpperAlpha[i] = ch]
    ELSE ch

UpperChar(ch) ==
  IF \E i \in DOMAIN LowerAlpha : LowerAlpha[i] = ch
    THEN UpperAlpha[CHOOSE i \in DOMAIN LowerAlpha : LowerAlpha[i] = ch]
    ELSE ch

\* the suffix taken as it is written
Lower_AsWritten(suffix) == suffix

\* path.suffix.lower(); a suffix is the sequence of its characters
Lower(suffix) == [i \in DOMAIN suffix |-> LowerChar(suffix[i])]

SfxCsv == <<".", "c", "s", "v">>
SfxXls == <<".", "x", "l", "s">>
SfxXlsx == <<".", "x", "l", "s", "x">>
SfxJson == <<".", "j", "s", "o", "n">>
SfxParquet == <<".", "p", "a", "r", "q", "u", "e", "t">>
SfxFeather == <<".", "f", "e", "a", "t", "h", "e", "r">>
SfxH5 == <<".", "h", "5">>
SfxHdf5 == <<".", "h", "d", "f", "5">>
SfxPkl == <<".", "p", "k", "l">>

\* the pandas function the dispatch of read_/save_ selects, "" for none
Dispatch(suffix) ==
  CASE suffix = SfxCsv -> "csv"
    [] suffix \in {SfxXls, SfxXlsx} -> "excel"
    [] suffix = SfxJson -> "json"
    [] suffix = SfxParquet -> "parquet"
    [] suffix = SfxFeather -> "feather"
    [] suffix \in {SfxH5, SfxHdf5} -> "hdf"
    [] suffix = SfxPkl -> "pickle"
    [] OTHER -> ""

\* a file is [exists, suffix, corrupt, data]; the pandas reader raises on
\* corrupt content and returns data otherwise
read_dataset_from_path(file) ==
  IF ~file.exists
    THEN [exc |-> "FileNotFoundError", df |-> NoDf, readers |-> << >>]
    ELSE LET reader == Dispatch(Lower(file.suffix)) IN
      IF reader = ""
        THEN [exc |-> "ValueError", df |-> NoDf, readers |-> << >>]
        ELSE IF file.corrupt
          THEN [exc |-> "ReaderError", df |-> NoDf, readers |-> <<reader>>]
          ELSE [exc |-> "none", df |-> file.data, readers |-> <<reader>>]

\* no else branch: an unsupported suffix falls through and returns None
save_dataframe_to_path(suffix) ==
  LET writer == Dispatch(Lower(suffix)) IN
    IF writer = ""
      THEN [exc |-> "none", writers |-> << >>]
      ELSE [exc |-> "none", writers |-> <<writer>>]

\* the files AppState is asked to load
Paths == {"d1.csv", "d2.JSON", "gone.csv", "notes.txt", "broken.csv"}

File(path) ==
  CASE path = "d1.csv" ->
         [exists |-> TRUE, suffix |-> SfxCsv, corrupt |-> FALSE,
          data |-> Dataset("d1")]
    [] path = "d2.JSON" ->
         [exists |-> TRUE, suffix |-> <<".", "J", "S", "O", "N">>,
          corrupt |-> FALSE, data |-> Dataset("d2")]
    [] path = "gone.csv" ->
         [exists |-> FALSE, suffix |-> SfxCsv, corrupt |-> FALSE,
          data |-> Dataset("d1")]
    [] path = "notes.txt" ->
         [exists |-> TRUE, suffix |-> <<".", "t", "x", "t">>, corrupt |-> FALSE,
          data |-> Dataset("d1")]
    [] OTHER ->
         [exists |-> TRUE, suffix |-> SfxCsv, corrupt |-> TRUE,
          data |-> Dataset("d1")]

\* ------------------------------------------------ core/data_operations.py
RECURSIVE ColumnsExcept(_, _)
ColumnsExcept(cols, t) ==
  IF cols = << >> THEN << >>
  ELSE IF Head(cols) # t
    THEN <<Head(cols)>> \o ColumnsExcept(Tail(cols), t)
    ELSE ColumnsExcept(Tail(cols), t)

\* get_features that forgets to drop the target
get_features_KeepsTarget(cols, t) ==
  IF t = NoneVal \/ t \notin Range(cols) THEN << >> ELSE cols

get_features(cols, t) ==
  IF t = NoneVal \/ t \notin Range(cols) THEN << >> ELSE ColumnsExcept(cols, t)

\* ---------------------------------------------------------------- AppState
get_all_column_names == IF df = NoDf THEN << >> ELSE df.columns

\* AppState.get_features on the fields it reads
features_of(dfv, t) == IF dfv = NoDf THEN << >> ELSE get_features(dfv.columns, t)

AppState_get_features == features_of(df, target_var)

\* the requested target taken as it is given
NewTarget_AsGiven(t) == t

\* target_var if target_var else "no target"
NewTarget(t) == IF t = NoneVal \/ t = "" THEN NoTarget ELSE t

Snapshot == [df |-> df, dataset_path |-> dataset_path, target_var |-> target_var,
             selected_features |-> selected_features,
             select_all_features_mode |-> select_all_features_mode]

\* a program point with its arguments: s a string, fs a set, b a Boolean
Frame(pc, s, fs, b) == [pc |-> pc, s |-> s, fs |-> fs, b |-> b]

\* a signal together with its payload
Sig(name, s, fs) == [sig |-> name, s |-> s, fs |-> fs]

Emit(log, e) == IF Len(log) < MaxEmit THEN Append(log, e) ELSE log

Top == Head(stack)

At(pc) == stack # << >> /\ Top.pc = pc

\* ------------------------------------------------- gui/model_configurator.py
\* QCheckBox.setChecked: stateChanged goes out when the state changes and
\* the signals of the checkbox are not blocked
setChecked(cur, new, blocked) ==
  [checked |-> new, stateChanged |-> (cur # new) /\ ~blocked]

\* FeatureCheckBoxes.update_selection_state; the result carries the widget
\* and whether the "Select All" checkbox let stateChanged out
update_selection_state(w, selected) ==
  LET actions == [i \in DOMAIN w.menu |->
                    [text |-> w.menu[i].text,
                     checked |-> w.menu[i].text \in selected]]
      all_checked == Len(actions) > 0 /\ Cardinality(selected) = Len(actions)
      cb == IF w.select_all_checked # all_checked
              THEN setChecked(w.select_all_checked, all_checked, TRUE)
              ELSE [checked |-> w.select_all_checked, stateChanged |-> FALSE]
  IN [w |-> [w EXCEPT !.menu = actions, !.select_all_checked = cb.checked],
      stateChanged |-> cb.stateChanged]

\* update_menu that rebuilds the entries and leaves them unchecked
update_menu_Unchecked(w, features, selected) ==
  [w |-> [menu |-> [i \in DOMAIN features |->
                      [text |-> features[i], checked |-> FALSE]],
          select_button_enabled |-> features # << >>,
          select_all_enabled |-> features # << >>,
          select_all_checked |-> w.select_all_checked],
   stateChanged |-> FALSE]

\* FeatureCheckBoxes.update_menu
update_menu(w, features, selected) ==
  IF features = << >>
    THEN LET cb == setChecked(w.select_all_checked, FALSE, FALSE) IN
      [w |-> [menu |-> << >>, select_button_enabled |-> FALSE,
              select_all_enabled |-> FALSE, select_all_checked |-> cb.checked],
       stateChanged |-> cb.stateChanged]
    ELSE update_selection_state(
           [menu |-> [i \in DOMAIN features |->
                        [text |-> features[i], checked |-> FALSE]],
            select_button_enabled |-> TRUE,
            select_all_enabled |-> TRUE,
            select_all_checked |-> w.select_all_checked],
           selected)

\* ModelConfigGroup._update_feature_list -> FeatureSelectWidget.update_features
update_feature_list == update_menu(fcb, AppState_get_features, selected_features)

\* ModelConfigGroup._update_selected_features -> FeatureSelectWidget.update_selected
update_selected_features(selected) == update_selection_state(fcb, selected)

\* FeatureCheckBoxes._on_select_all_toggled with the connection of
\* select_all_toggled to AppState.toggle_all_features: the call it makes
on_select_all_toggled(checked) ==
  <<Frame("toggle_all_features", "", {}, checked)>>

\* what a refresh of the feature widget leaves behind: the signals it let
\* out and the calls into AppState they make
RefreshLog(r, log) ==
  IF r.stateChanged
    THEN Emit(log, Sig("select_all_toggled",
                       IF r.w.select_all_checked THEN "True" ELSE "False", {}))
    ELSE log

RefreshCalls(r) ==
  IF r.stateChanged THEN on_select_all_toggled(r.w.select_all_checked) ELSE << >>

\* TargetSelectWidget.update_widget: the combobox is refilled with its
\* signals blocked; the first item becomes the current one
update_widget(columns) == [items |-> <<NoTarget>> \o columns, current |-> NoTarget]

\* QComboBox.setCurrentText of a non-editable combobox: selects the item with
\* that text if there is one
setCurrentText(c, text) ==
  IF text \in Range(c.items) THEN [c EXCEPT !.current = text] ELSE c

\* TargetSelectWidget.target_var_selected connected to AppState.set_target_var
target_var_selected(t) == <<Frame("set_target_var", t, {}, FALSE)>>

\* ------------------------------------------------------------------- Init
IdleIo == [phase |-> "idle", op |-> "", file |-> File("d1.csv"), exc |-> "",
           df |-> NoDf, calls |-> << >>]

IdleMp == [phase |-> "idle", kwargs |-> << >>, lenient |-> {}, exc |-> "",
           obj |-> << >>]

IdleGf == [phase |-> "idle", df |-> NoDf, target |-> NoTarget, result |-> << >>]

InitApp ==
  /\ df = NoDf
  /\ dataset_path = NoneVal
  /\ target_var = NoTarget
  /\ selected_features = {}
  /\ select_all_features_mode = FALSE
  /\ stack_index = 0
  /\ combo = [items |-> << >>, current |-> ""]
  /\ fcb = [menu |-> << >>, select_button_enabled |-> FALSE,
            select_all_enabled |-> FALSE, select_all_checked |-> FALSE]
  /\ stack = << >>
  /\ emitted = << >>
  /\ lastOp = Frame("init", "", {}, FALSE)
  /\ pre = [df |-> NoDf, dataset_path |-> NoneVal, target_var |-> NoTarget,
            selected_features |-> {}, select_all_features_mode |-> FALSE]
  /\ refreshToggled = FALSE

\* the outcome of a call of ModelTrainer: the exception it raised, the
\* models it constructed and the number of calls of fit
NoOutcome == [op |-> "__init__", exc |-> "none", msg |-> "", built |-> << >>,
              fits |-> 0]

\* model_train.py:12-14 ModelTrainer(): set_model(None), set_params(None)
NewTrainer == [model |-> NoneVal, needed_params |-> {},
               params |-> [set |-> FALSE, obj |-> << >>], out |-> NoOutcome]

\* tables.py:193-205 DataSetViewer(): no model yet, no target
NewViewer == [target_var |-> NoneVal, open |-> FALSE, columns |-> << >>,
              dtypes |-> << >>, cells |-> << >>, column_colors |-> {},
              out |-> [op |-> "__init__", col |-> 0, value |-> << >>,
                       role |-> "", target |-> "", result |-> FALSE,
                       exc |-> "none", dataChanged |-> << >>]]

InitSide == tr = NewTrainer /\ tv = NewViewer

Init == InitApp /\ io = IdleIo /\ mp = IdleMp /\ gf = IdleGf /\ InitSide

\* ------------------------------------------ operations arriving from outside
Idle == stack = << >>

\* a call of an AppState method from the event loop
Begin(f) ==
  /\ Idle
  /\ stack' = <<f>>
  /\ emitted' = << >>
  /\ lastOp' = f
  /\ pre' = Snapshot
  /\ UNCHANGED <<appVars, viewVars, refreshToggled, pureVars>>

\* Explorer.open_table / FileActions.open_dataset
OpenDataset == \E p \in Paths : Begin(Frame("load_dataset_from_path", p, {}, FALSE))

CallSetTargetVar ==
  \E t \in Names \cup {NoTarget, "", NoneVal} :
    Begin(Frame("set_target_var", t, {}, FALSE))

CallSetSelectedFeatures ==
  \E S \in SUBSET Names : Begin(Frame("set_selected_features", "", S, FALSE))

CallToggleFeatureSelection ==
  \E f \in Names, b \in BOOLEAN :
    Begin(Frame("toggle_feature_selection", f, {}, b))

CallToggleAllFeatures ==
  \E b \in BOOLEAN : Begin(Frame("toggle_all_features", "", {}, b))

\* the user picks another item of the target combobox: currentTextChanged ->
\* _on_target_var_changed -> target_var_selected
ChooseTarget ==
  \E t \in Range(combo.items) :
    /\ Idle
    /\ t # combo.current
    /\ combo' = [combo EXCEPT !.current = t]
    /\ stack' = target_var_selected(t)
    /\ emitted' = <<Sig("target_var_selected", t, {})>>
    /\ lastOp' = Frame("ui_choose_target", t, {}, FALSE)
    /\ pre' = Snapshot
    /\ UNCHANGED <<appVars, stack_index, fcb, refreshToggled, pureVars>>

\* NonClosingMenu.mouseReleaseEvent on a checkable entry of the feature menu
ClickFeature ==
  \E i \in DOMAIN fcb.menu :
    /\ Idle
    /\ fcb.select_button_enabled
    /\ LET is_checked == ~fcb.menu[i].checked IN
         /\ stack' = <<Frame("toggle_feature_selection", fcb.menu[i].text, {},
                             is_checked)>>
         /\ emitted' = <<Sig("feature_toggled", fcb.menu[i].text, {})>>
         /\ lastOp' = Frame("ui_click_feature", fcb.menu[i].text, {}, is_checked)
    /\ pre' = Snapshot
    /\ UNCHANGED <<appVars, viewVars, refreshToggled, pureVars>>

\* the user clicks the "Select All" checkbox: stateChanged ->
\* _on_select_all_toggled -> select_all_toggled
ClickSelectAll ==
  /\ Idle
  /\ fcb.select_all_enabled
  /\ LET cb == setChecked(fcb.select_all_checked, ~fcb.select_all_checked, FALSE) IN
       /\ fcb' = [fcb EXCEPT !.select_all_checked = cb.checked]
       /\ stack' = on_select_all_toggled(cb.checked)
       /\ emitted' = <<Sig("select_all_toggled",
                           IF cb.checked THEN "True" ELSE "False", {})>>
       /\ lastOp' = Frame("ui_click_select_all", "", {}, cb.checked)
  /\ pre' = Snapshot
  /\ UNCHANGED <<appVars, stack_index, combo, refreshToggled, pureVars>>

\* --------------------------------------------------------- AppState methods
Push(frames) == stack' = frames \o Tail(stack)

Return == stack' = Tail(stack)

\* a load that forgets to reset the target
load_dataset_from_path_KeepsTarget ==
  /\ At("load_dataset_from_path")
  /\ LET r == read_dataset_from_path(File(Top.s)) IN
       IF r.exc = "none"
         THEN /\ df' = r.df
              /\ dataset_path' = Top.s
              /\ select_all_features_mode' = FALSE
              /\ Push(<<Frame("set_selected_features", "", {}, FALSE),
                        Frame("emit_dataset_loaded", Top.s, {}, FALSE)>>)
         ELSE /\ Push(<<Frame("emit_error_occurred", Top.s, {}, FALSE)>>)
              /\ UNCHANGED <<df, dataset_path, select_all_features_mode>>
  /\ UNCHANGED <<target_var, selected_features, viewVars, emitted, lastOp, pre,
                 refreshToggled, pureVars>>

\* state.py:58-72.  The reset of the target comes after dataset_loaded.
load_dataset_from_path ==
  /\ At("load_dataset_from_path")
  /\ LET r == read_dataset_from_path(File(Top.s)) IN
       IF r.exc = "none"
         THEN /\ df' = r.df
              /\ dataset_path' = Top.s
              /\ select_all_features_mode' = FALSE
              /\ Push(<<Frame("set_selected_features", "", {}, FALSE),
                        Frame("emit_dataset_loaded", Top.s, {}, FALSE),
                        Frame("set_target_var", NoTarget, {}, FALSE)>>)
         ELSE /\ Push(<<Frame("emit_error_occurred", Top.s, {}, FALSE)>>)
              /\ UNCHANGED <<df, dataset_path, select_all_features_mode>>
  /\ UNCHANGED <<target_var, selected_features, viewVars, emitted, lastOp, pre,
                 refreshToggled, pureVars>>

\* set_target_var without its guard
TargetChanges_Always(old_target, new_target) == TRUE

\* state.py:79
TargetChanges(old_target, new_target) == old_target # new_target

\* state.py:77-82
set_target_var ==
  /\ At("set_target_var")
  /\ LET new_target == NewTarget(Top.s) IN
       IF TargetChanges(target_var, new_target)
         THEN /\ target_var' = new_target
              /\ Push(<<Frame("emit_target_var_changed", new_target, {}, FALSE),
                        Frame("set_target_var_reselect", "", {}, FALSE),
                        Frame("emit_features_list_changed", "", {}, FALSE)>>)
         ELSE /\ Return
              /\ UNCHANGED target_var
  /\ UNCHANGED <<df, dataset_path, selected_features, select_all_features_mode,
                 viewVars, emitted, lastOp, pre, refreshToggled, pureVars>>

\* a target change that does not select the new feature list
set_target_var_NoReselect ==
  /\ At("set_target_var_reselect")
  /\ Return
  /\ UNCHANGED <<appVars, viewVars, emitted, lastOp, pre, refreshToggled, pureVars>>

\* state.py:85-87: in "Select All" mode all features of the new list are
\* selected again
set_target_var_reselect ==
  /\ At("set_target_var_reselect")
  /\ IF select_all_features_mode
       THEN Push(<<Frame("toggle_all_features", "", {}, TRUE)>>)
       ELSE Return
  /\ UNCHANGED <<appVars, viewVars, emitted, lastOp, pre, refreshToggled, pureVars>>

\* set_selected_features without its guard
SelectionChanges_Always(current, features) == TRUE

\* state.py:105
SelectionChanges(current, features) == current # features

\* a selection that never leaves the mode
LeavesSelectAllMode_Never(mode, n_features, features) == FALSE

\* state.py:110: the mode is left when the number of selected names differs
\* from the number of features
LeavesSelectAllMode(mode, n_features, features) ==
  mode /\ n_features # Cardinality(features)

\* state.py:105-112
set_selected_features ==
  /\ At("set_selected_features")
  /\ IF SelectionChanges(selected_features, Top.fs)
       THEN /\ selected_features' = Top.fs
            /\ select_all_features_mode' =
                 IF LeavesSelectAllMode(select_all_features_mode,
                                        Len(AppState_get_features), Top.fs)
                   THEN FALSE ELSE select_all_features_mode
            /\ Push(<<Frame("emit_selected_features_changed", "", {}, FALSE)>>)
       ELSE /\ Return
            /\ UNCHANGED <<selected_features, select_all_features_mode>>
  /\ UNCHANGED <<df, dataset_path, target_var, viewVars, emitted, lastOp, pre,
                 refreshToggled, pureVars>>

\* state.py:117-122
toggle_feature_selection ==
  /\ At("toggle_feature_selection")
  /\ LET new_features == IF Top.b THEN selected_features \cup {Top.s}
                                  ELSE selected_features \ {Top.s} IN
       Push(<<Frame("set_selected_features", "", new_features, FALSE)>>)
  /\ UNCHANGED <<appVars, viewVars, emitted, lastOp, pre, refreshToggled, pureVars>>

\* state.py:126-130
toggle_all_features ==
  /\ At("toggle_all_features")
  /\ select_all_features_mode' = Top.b
  /\ Push(<<Frame("set_selected_features", "",
                  IF Top.b THEN Range(AppState_get_features) ELSE {}, FALSE)>>)
  /\ UNCHANGED <<df, dataset_path, target_var, selected_features, viewVars,
                 emitted, lastOp, pre, refreshToggled, pureVars>>

\* ------------------------------------------------ signals and their slots
\* on_dataset_loaded that leaves the placeholder page in front
emit_dataset_loaded_KeepsPlaceholder ==
  /\ At("emit_dataset_loaded")
  /\ stack_index' = stack_index
  /\ combo' = update_widget(get_all_column_names)
  /\ LET r == update_feature_list IN
       /\ fcb' = r.w
       /\ emitted' = RefreshLog(r, Emit(emitted, Sig("dataset_loaded", Top.s, {})))
       /\ Push(RefreshCalls(r))
       /\ refreshToggled' = (refreshToggled \/ r.stateChanged)
  /\ UNCHANGED <<appVars, lastOp, pre, pureVars>>

\* dataset_loaded -> ModelConfigGroup.on_dataset_loaded (FileMenu only
\* enables its export entry)
emit_dataset_loaded ==
  /\ At("emit_dataset_loaded")
  /\ stack_index' = 1
  /\ combo' = update_widget(get_all_column_names)
  /\ LET r == update_feature_list IN
       /\ fcb' = r.w
       /\ emitted' = RefreshLog(r, Emit(emitted, Sig("dataset_loaded", Top.s, {})))
       /\ Push(RefreshCalls(r))
       /\ refreshToggled' = (refreshToggled \/ r.stateChanged)
  /\ UNCHANGED <<appVars, lastOp, pre, pureVars>>

\* a failed load that goes on to the reset of the target
emit_error_occurred_ThenReset ==
  /\ At("emit_error_occurred")
  /\ emitted' = Emit(emitted, Sig("error_occurred", Top.s, {}))
  /\ Push(<<Frame("set_target_var", NoTarget, {}, FALSE)>>)
  /\ UNCHANGED <<appVars, viewVars, lastOp, pre, refreshToggled, pureVars>>

\* error_occurred has no slot in the configuration widgets
emit_error_occurred ==
  /\ At("emit_error_occurred")
  /\ emitted' = Emit(emitted, Sig("error_occurred", Top.s, {}))
  /\ Return
  /\ UNCHANGED <<appVars, viewVars, lastOp, pre, refreshToggled, pureVars>>

\* target_var_changed -> TargetSelectWidget._update_combobox_selection; a
\* change of the current item goes on to _on_target_var_changed
emit_target_var_changed ==
  /\ At("emit_target_var_changed")
  /\ LET c == setCurrentText(combo, Top.s)
         log == Emit(emitted, Sig("target_var_changed", Top.s, {})) IN
       /\ combo' = c
       /\ IF c.current # combo.current
            THEN /\ emitted' = Emit(log, Sig("target_var_selected", c.current, {}))
                 /\ Push(target_var_selected(c.current))
            ELSE /\ emitted' = log
                 /\ Return
  /\ UNCHANGED <<appVars, stack_index, fcb, lastOp, pre, refreshToggled, pureVars>>

\* features_list_changed -> ModelConfigGroup._update_feature_list
emit_features_list_changed ==
  /\ At("emit_features_list_changed")
  /\ LET r == update_feature_list IN
       /\ fcb' = r.w
       /\ emitted' = RefreshLog(r, Emit(emitted, Sig("features_list_changed", "", {})))
       /\ Push(RefreshCalls(r))
       /\ refreshToggled' = (refreshToggled \/ r.stateChanged)
  /\ UNCHANGED <<appVars, stack_index, combo, lastOp, pre, pureVars>>

\* selected_features_changed -> ModelConfigGroup._update_selected_features
emit_selected_features_changed ==
  /\ At("emit_selected_features_changed")
  /\ LET r == update_selected_features(selected_features) IN
       /\ fcb' = r.w
       /\ emitted' = RefreshLog(r, Emit(emitted,
                       Sig("selected_features_changed", "", selected_features)))
       /\ Push(RefreshCalls(r))
       /\ refreshToggled' = (refreshToggled \/ r.stateChanged)
  /\ UNCHANGED <<appVars, stack_index, combo, lastOp, pre, pureVars>>

\* ------------------------------------------------------------ specification
\* one step of the running cascade
Step ==
  \/ load_dataset_from_path
  \/ set_target_var
  \/ set_target_var_reselect
  \/ set_selected_features
  \/ toggle_feature_selection
  \/ toggle_all_features
  \/ emit_dataset_loaded
  \/ emit_error_occurred
  \/ emit_target_var_changed
  \/ emit_features_list_changed
  \/ emit_selected_features_changed

Next ==
  \/ OpenDataset
  \/ CallSetTargetVar
  \/ CallSetSelectedFeatures
  \/ CallToggleFeatureSelection
  \/ CallToggleAllFeatures
  \/ ChooseTarget
  \/ ClickFeature
  \/ ClickSelectAll
  \/ Step

Spec == Init /\ [][Next]_vars

\* the cascade runs to its end: the calls are synchronous
FairSpec == Spec /\ WF_vars(Step)

\* -------------------------------------------------------- model_params.py
\* config/models_supported_params.py ALL_PARAMS, in the order of the dict
ALL_PARAMS ==
  << [name |-> "alpha", type |-> "float"],
     [name |-> "random_state", type |-> "int"],
     [name |-> "copy_X", type |-> "bool"],
     [name |-> "selection", type |-> "str"],
     [name |-> "l1_ratio", type |-> "float"],
     [name |-> "fit_intercept", type |-> "bool"],
     [name |-> "tol", type |-> "float"],
     [name |-> "solver", type |-> "str"],
     [name |-> "max_iter", type |-> "int"],
     [name |-> "positive", type |-> "bool"] >>

ParamNames == {ALL_PARAMS[i].name : i \in DOMAIN ALL_PARAMS}

\* a value is known by its Python type; "None" is None
Tags == {"None", "float", "int", "bool", "str"}

\* what trycast may accept beyond the exact type (the numeric tower of
\* PEP 484); which of these it accepts is left open
LenientPairs == {<<"int", "float">>, <<"bool", "int">>, <<"bool", "float">>}

\* trycast.isassignable(value, Optional[expected])
isassignable(tag, expected, lenient) ==
  tag = "None" \/ tag = expected \/ <<tag, expected>> \in lenient

\* kwargs.get(param, None)
KwGet(kwargs, param) == IF param \in DOMAIN kwargs THEN kwargs[param] ELSE "None"

\* the first loop of __init__: the index of the first parameter that fails
\* the type check, 0 if none does
RECURSIVE FirstTypeError(_, _, _)
FirstTypeError(i, kwargs, lenient) ==
  IF i > Len(ALL_PARAMS) THEN 0
  ELSE LET value == KwGet(kwargs, ALL_PARAMS[i].name) IN
    IF value # "None" /\ ~isassignable(value, ALL_PARAMS[i].type, lenient)
      THEN i
      ELSE FirstTypeError(i + 1, kwargs, lenient)

\* __init__ without the loop over the keys of kwargs
ModelParams_init_NoKeyCheck(kwargs, lenient) ==
  IF FirstTypeError(1, kwargs, lenient) # 0
    THEN [exc |-> "TypeError", obj |-> << >>]
    ELSE [exc |-> "none", obj |-> [p \in ParamNames |-> KwGet(kwargs, p)]]

\* ModelParams.__init__: the exception it raises and the object it leaves
ModelParams_init(kwargs, lenient) ==
  IF FirstTypeError(1, kwargs, lenient) # 0
    THEN [exc |-> "TypeError", obj |-> << >>]
    ELSE IF \E key \in DOMAIN kwargs : key \notin ParamNames
      THEN [exc |-> "ValueError", obj |-> << >>]
      ELSE [exc |-> "none", obj |-> [p \in ParamNames |-> KwGet(kwargs, p)]]

\* ------------------------------------------- calls of the pure functions
\* every spelling of a suffix in upper and lower case
CaseVariants(b) ==
  {[i \in DOMAIN b |-> IF i \in U THEN UpperChar(b[i]) ELSE b[i]] :
     U \in SUBSET DOMAIN b}

Supported == {SfxCsv, SfxXls, SfxXlsx, SfxJson, SfxParquet, SfxFeather, SfxH5,
              SfxHdf5, SfxPkl}

Unsupported == {<< >>, <<".", "t", "x", "t">>, <<".", "c", "s">>,
                <<".", "c", "s", "v", "x">>, <<".", "h", "d", "f">>,
                <<".", "x", "l">>}

Suffixes == UNION {CaseVariants(b) : b \in Supported \cup Unsupported}

IoCalls ==
  {[phase |-> "call", op |-> o,
    file |-> [exists |-> e, suffix |-> v, corrupt |-> c, data |-> Dataset("d1")],
    exc |-> "", df |-> NoDf, calls |-> << >>] :
     o \in {"read", "save"}, e \in BOOLEAN, c \in BOOLEAN, v \in Suffixes}

KwKeys == ParamNames \cup {"unknown_kw"}

KwArgs ==
  UNION {[K -> Tags] : K \in {K \in SUBSET KwKeys : Cardinality(K) <= MaxKw}}

MpCalls ==
  {[phase |-> "call", kwargs |-> kw, lenient |-> L, exc |-> "", obj |-> << >>] :
     kw \in KwArgs, L \in SUBSET LenientPairs}

GfNames == {"a", "b", NoTarget}

ColumnSeqs == UNION {[1..n -> GfNames] : n \in 0..MaxLen}

GfCalls ==
  {[phase |-> "call", df |-> d, target |-> t, result |-> << >>] :
     d \in {NoDf} \cup {[loaded |-> TRUE, name |-> "x", columns |-> c] :
                          c \in ColumnSeqs},
     t \in GfNames \cup {NoneVal, "c"}}

PureInit ==
  /\ InitApp
  /\ InitSide
  /\ \/ io \in IoCalls /\ mp = IdleMp /\ gf = IdleGf
     \/ io = IdleIo /\ mp \in MpCalls /\ gf = IdleGf
     \/ io = IdleIo /\ mp = IdleMp /\ gf \in GfCalls

DoRead ==
  /\ io.phase = "call" /\ io.op = "read"
  /\ LET r == read_dataset_from_path(io.file) IN
       io' = [io EXCEPT !.phase = "done", !.exc = r.exc, !.df = r.df,
                        !.calls = r.readers]
  /\ UNCHANGED <<appVars, viewVars, ctlVars, mp, gf, sideVars>>

DoSave ==
  /\ io.phase = "call" /\ io.op = "save"
  /\ LET r == save_dataframe_to_path(io.file.suffix) IN
       io' = [io EXCEPT !.phase = "done", !.exc = r.exc, !.calls = r.writers]
  /\ UNCHANGED <<appVars, viewVars, ctlVars, mp, gf, sideVars>>

DoModelParams ==
  /\ mp.phase = "call"
  /\ LET r == ModelParams_init(mp.kwargs, mp.lenient) IN
       mp' = [mp EXCEPT !.phase = "done", !.exc = r.exc, !.obj = r.obj]
  /\ UNCHANGED <<appVars, viewVars, ctlVars, io, gf, sideVars>>

DoGetFeatures ==
  /\ gf.phase = "call"
  /\ gf' = [gf EXCEPT !.phase = "done", !.result = features_of(gf.df, gf.target)]
  /\ UNCHANGED <<appVars, viewVars, ctlVars, io, mp, sideVars>>

PureNext == DoRead \/ DoSave \/ DoModelParams \/ DoGetFeatures

PureSpec == PureInit /\ [][PureNext]_vars

\* the calls of AppState other than set_selected_features, from code and
\* from the window
CallsNext ==
  \/ OpenDataset
  \/ CallSetTargetVar
  \/ CallToggleFeatureSelection
  \/ CallToggleAllFeatures
  \/ ChooseTarget
  \/ ClickFeature
  \/ ClickSelectAll
  \/ Step

CallsSpec == Init /\ [][CallsNext]_vars

\* only what a user can do in the window
GuiNext ==
  \/ OpenDataset
  \/ ChooseTarget
  \/ ClickFeature
  \/ ClickSelectAll
  \/ Step

GuiSpec == Init /\ [][GuiNext]_vars

\* --------------------------------------------------------- model_train.py
\* config/available_models.py:6-9, the members of SupportedModels by name
SupportedModels == {"Ridge_model", "Lasso_model", "ElasticNet_model"}

\* the value of a member: the estimator class
ModelClass(model) ==
  CASE model = "Ridge_model" -> "Ridge"
    [] model = "Lasso_model" -> "Lasso"
    [] model = "ElasticNet_model" -> "ElasticNet"

\* config/models_supported_params.py:21-59, looked up by member name
ModelsSupportedParams(name) ==
  CASE name = "Lasso_model" ->
         {"alpha", "fit_intercept", "copy_X", "max_iter", "tol", "positive",
          "random_state", "selection"}
    [] name = "ElasticNet_model" ->
         {"alpha", "l1_ratio", "fit_intercept", "copy_X", "max_iter", "tol",
          "positive", "random_state", "selection"}
    [] name = "Ridge_model" ->
         {"alpha", "fit_intercept", "copy_X", "max_iter", "tol", "solver",
          "positive", "random_state"}

\* utils.py:15-22
get_params_for_model(model) ==
  IF model \notin SupportedModels
    THEN [exc |-> "TypeError", value |-> {}]
    ELSE [exc |-> "none", value |-> ModelsSupportedParams(model)]

Outcome(op, exc, msg) ==
  [op |-> op, exc |-> exc, msg |-> msg, built |-> << >>, fits |-> 0]

\* set_model that keeps the parameter names of the previous model
set_model_StaleParams(t, model) ==
  IF model = NoneVal
    THEN [t EXCEPT !.model = NoneVal, !.needed_params = {},
                   !.out = Outcome("set_model", "none", "")]
    ELSE IF model \notin SupportedModels
      THEN [t EXCEPT !.out = Outcome("set_model", "TypeError",
                       "Model must be of type SupportedModels or None")]
      ELSE [t EXCEPT !.model = model,
                     !.out = Outcome("set_model", "none", "")]

\* ModelTrainer.set_model, model_train.py:16-26
set_model(t, model) ==
  IF model = NoneVal
    THEN [t EXCEPT !.model = NoneVal, !.needed_params = {},
                   !.out = Outcome("set_model", "none", "")]
    ELSE IF model \notin SupportedModels
      THEN [t EXCEPT !.out = Outcome("set_model", "TypeError",
                       "Model must be of type SupportedModels or None")]
      ELSE [t EXCEPT !.model = model,
                     !.needed_params = get_params_for_model(model).value,
                     !.out = Outcome("set_model", "none", "")]

\* ModelTrainer.set_params, model_train.py:28-36; p.kind tells None, a
\* ModelParams object and anything else apart
set_params(t, p) ==
  IF p.kind = "None"
    THEN [t EXCEPT !.params = [set |-> FALSE, obj |-> << >>],
                   !.out = Outcome("set_params", "none", "")]
    ELSE IF p.kind # "ModelParams"
      THEN [t EXCEPT !.out = Outcome("set_params", "TypeError",
                       "Params must be of type ModelParams or None")]
      ELSE [t EXCEPT !.params = [set |-> TRUE, obj |-> p.obj],
                     !.out = Outcome("set_params", "none", "")]

\* model_train.py:45-49
actual_params(t) ==
  [param \in {q \in t.needed_params : t.params.obj[q] # "None"} |->
     t.params.obj[param]]

\* train without the check of self.params: getattr(None, ...) fails
train_NoParamsCheck(t) ==
  IF t.model = NoneVal
    THEN [t EXCEPT !.out = Outcome("train", "ValueError", "Model is not set")]
    ELSE IF ~t.params.set
      THEN [t EXCEPT !.out = Outcome("train", "AttributeError", "")]
      ELSE [t EXCEPT !.out =
             [op |-> "train", exc |-> "none", msg |-> "",
              built |-> <<[class |-> ModelClass(t.model),
                           kwargs |-> actual_params(t)]>>,
              fits |-> 1]]

\* ModelTrainer.train, model_train.py:38-56
train(t) ==
  IF t.model = NoneVal
    THEN [t EXCEPT !.out = Outcome("train", "ValueError", "Model is not set")]
    ELSE IF ~t.params.set
      THEN [t EXCEPT !.out = Outcome("train", "ValueError",
                                     "Params are not set")]
      ELSE [t EXCEPT !.out =
             [op |-> "train", exc |-> "none", msg |-> "",
              built |-> <<[class |-> ModelClass(t.model),
                           kwargs |-> actual_params(t)]>>,
              fits |-> 1]]

\* the annotated type of a parameter
ParamType(name) ==
  ALL_PARAMS[CHOOSE i \in DOMAIN ALL_PARAMS : ALL_PARAMS[i].name = name].type

\* the ModelParams objects that __init__ builds from at most MaxKw
\* well-typed keyword arguments
ParamObjs ==
  {ModelParams_init([q \in K |-> ParamType(q)], {}).obj :
     K \in {K \in SUBSET ParamNames : Cardinality(K) <= MaxKw}}

\* what a caller may hand to set_model and set_params
ModelArgs == SupportedModels \cup {NoneVal, "Ridge"}

ParamArgs ==
  {[kind |-> "ModelParams", obj |-> o] : o \in ParamObjs}
    \cup {[kind |-> "None", obj |-> << >>], [kind |-> "dict", obj |-> << >>]}

SetModel ==
  /\ \E model \in ModelArgs : tr' = set_model(tr, model)
  /\ UNCHANGED <<appVars, viewVars, ctlVars, io, mp, gf, tv>>

SetParams ==
  /\ \E p \in ParamArgs : tr' = set_params(tr, p)
  /\ UNCHANGED <<appVars, viewVars, ctlVars, io, mp, gf, tv>>

Train ==
  /\ tr' = train(tr)
  /\ UNCHANGED <<appVars, viewVars, ctlVars, io, mp, gf, tv>>

TrainNext == SetModel \/ SetParams \/ Train

TrainSpec == Init /\ [][TrainNext]_vars

\* ----------------------------- gui/tables.py and core/data_operations.py
\* the text typed into a cell: at most MaxText characters of this alphabet
TextChars == {"1", ".", "-"}

Texts == UNION {[1..n -> TextChars] : n \in 0..MaxText}

Digits == {"1"}

\* str.isdigit / str.isnumeric: not empty and digits only
isdigit(s) == Len(s) > 0 /\ \A i \in DOMAIN s : s[i] \in Digits

\* s.replace(".", "", 1): s without its first "."
replace_first_dot(s) ==
  IF \E i \in DOMAIN s : s[i] = "."
    THEN LET k == CHOOSE i \in DOMAIN s :
                    s[i] = "." /\ \A j \in 1..(i - 1) : s[j] # "."
         IN SubSeq(s, 1, k - 1) \o SubSeq(s, k + 1, Len(s))
    ELSE s

\* the number a string of digits denotes
RECURSIVE DigitsValue(_)
DigitsValue(s) ==
  IF s = << >> THEN 0
  ELSE 10 * DigitsValue(SubSeq(s, 1, Len(s) - 1))
         + (IF s[Len(s)] = "1" THEN 1 ELSE 0)

Unsigned(s) == IF s # << >> /\ s[1] = "-" THEN Tail(s) ELSE s

Sign(s) == IF s # << >> /\ s[1] = "-" THEN -1 ELSE 1

\* the texts int() accepts: an optional sign and digits
IsIntText(s) == isdigit(Unsigned(s))

\* the texts float() accepts: an optional sign, digits and at most one "."
IsFloatText(s) == isdigit(replace_first_dot(Unsigned(s)))

\* the values of a cell
IntCell(n) == [kind |-> "int", num |-> n, scale |-> 0, text |-> << >>]

FloatCell(m, k) == [kind |-> "float", num |-> m, scale |-> k, text |-> << >>]

StrCell(s) == [kind |-> "str", num |-> 0, scale |-> 0, text |-> s]

\* int(value)
int(s) == IntCell(Sign(s) * DigitsValue(Unsigned(s)))

\* float(value): the digits and the number of them behind the "."
float(s) ==
  LET u == Unsigned(s)
      frac == IF \E i \in DOMAIN u : u[i] = "."
                THEN Len(u) - (CHOOSE i \in DOMAIN u : u[i] = ".")
                ELSE 0
  IN FloatCell(Sign(s) * DigitsValue(replace_first_dot(u)), frac)

\* pd.api.types.is_numeric_dtype / is_integer_dtype / is_string_dtype or
\* is_object_dtype
is_numeric_dtype(dtype) == dtype \in {"int64", "float64"}

is_integer_dtype(dtype) == dtype = "int64"

is_string_dtype(dtype) == dtype = "object"

\* the frames a DataSetViewer can open: one row each
TableData(name) ==
  CASE name = "t1" ->
         [columns |-> <<"n", "s">>, dtypes |-> <<"int64", "object">>,
          cells |-> <<IntCell(0), StrCell(<<"x">>)>>]
    [] name = "t2" ->
         [columns |-> <<"x", "when">>, dtypes |-> <<"float64", "datetime64">>,
          cells |-> <<FloatCell(0, 0), StrCell(<<"-">>)>>]
    [] name = "t3" ->
         [columns |-> <<"", "b", "c">>,
          dtypes |-> <<"object", "object", "object">>,
          cells |-> <<StrCell(<<"x">>), StrCell(<<"x">>), StrCell(<<"x">>)>>]

\* what a call on the viewer or its model leaves behind: the arguments, the
\* returned value, the exception and the dataChanged signals emitted
ViewerOutcome(op, col, value, role, target, result, exc, signals) ==
  [op |-> op, col |-> col, value |-> value, role |-> role, target |-> target,
   result |-> result, exc |-> exc, dataChanged |-> signals]

\* validate_and_update_cell that writes the typed text before it validates
validate_and_update_cell_WriteFirst(t, col, value, accepts) ==
  LET dtype == t.dtypes[col]
      written == [t.cells EXCEPT ![col] = StrCell(value)]
  IN IF is_numeric_dtype(dtype)
       THEN IF is_integer_dtype(dtype)
         THEN IF IsIntText(value)
           THEN [success |-> TRUE, cells |-> [t.cells EXCEPT ![col] = int(value)]]
           ELSE [success |-> FALSE, cells |-> written]
         ELSE IF IsFloatText(value)
           THEN [success |-> TRUE,
                 cells |-> [t.cells EXCEPT ![col] = float(value)]]
           ELSE [success |-> FALSE, cells |-> written]
       ELSE IF is_string_dtype(dtype)
         THEN IF isdigit(value) \/ isdigit(replace_first_dot(value))
           THEN [success |-> FALSE, cells |-> written]
           ELSE [success |-> TRUE, cells |-> written]
         ELSE IF accepts
           THEN [success |-> TRUE, cells |-> written]
           ELSE [success |-> FALSE, cells |-> written]

\* core/data_operations.py:22-64 on row 0; a failed conversion raises before
\* the write and the handler writes original_value back. accepts tells
\* whether pandas stores a text in a column of another dtype or raises
validate_and_update_cell(t, col, value, accepts) ==
  LET dtype == t.dtypes[col]
      original_value == t.cells[col]
      reverted == [t.cells EXCEPT ![col] = original_value]
  IN IF is_numeric_dtype(dtype)
       THEN IF is_integer_dtype(dtype)
         THEN IF IsIntText(value)
           THEN [success |-> TRUE, cells |-> [t.cells EXCEPT ![col] = int(value)]]
           ELSE [success |-> FALSE, cells |-> reverted]
         ELSE IF IsFloatText(value)
           THEN [success |-> TRUE,
                 cells |-> [t.cells EXCEPT ![col] = float(value)]]
           ELSE [success |-> FALSE, cells |-> reverted]
       ELSE IF is_string_dtype(dtype)
         THEN IF isdigit(value) \/ isdigit(replace_first_dot(value))
           THEN [success |-> FALSE, cells |-> reverted]
           ELSE [success |-> TRUE,
                 cells |-> [t.cells EXCEPT ![col] = StrCell(value)]]
         ELSE IF accepts
           THEN [success |-> TRUE,
                 cells |-> [t.cells EXCEPT ![col] = StrCell(value)]]
           ELSE [success |-> FALSE, cells |-> reverted]

\* dataChanged.emit(top_left, bottom_right, roles) for one column
DataChanged(col, role) == [top_left |-> col, bottom_right |-> col, roles |-> role]

\* PandasModel.setData, tables.py:79-103
setData(t, col, value, role, accepts) ==
  IF role = "EditRole"
    THEN LET r == validate_and_update_cell(t, col, value, accepts) IN
      IF r.success
        THEN [t EXCEPT !.cells = r.cells,
                       !.out = ViewerOutcome("setData", col, value, role, "",
                                 TRUE, "none",
                                 <<DataChanged(col, "DisplayRole")>>)]
        ELSE [t EXCEPT !.cells = r.cells,
                       !.out = ViewerOutcome("setData", col, value, role, "",
                                 FALSE, "none", << >>)]
    ELSE [t EXCEPT !.out = ViewerOutcome("setData", col, value, role, "",
                             FALSE, "none", << >>)]

\* df.columns.get_loc(name) for a name that is a column
get_loc(columns, name) == CHOOSE i \in DOMAIN columns : columns[i] = name

\* PandasModel.set_column_color_by_name, tables.py:140-161
set_column_color_by_name(columns, colors, col_name, color) ==
  IF col_name \notin Range(columns)
    THEN [colors |-> colors, signals |-> << >>]
    ELSE LET col == get_loc(columns, col_name) IN
      [colors |-> {c \in colors : c.col # col}
                    \cup {[col |-> col, color |-> color]},
       signals |-> <<DataChanged(col, "BackgroundRole")>>]

\* PandasModel.reset_column_color, tables.py:163-181
reset_column_color(columns, colors, column_name) ==
  IF column_name \notin Range(columns)
    THEN [colors |-> colors, signals |-> << >>]
    ELSE LET col == get_loc(columns, column_name) IN
      IF \E c \in colors : c.col = col
        THEN [colors |-> {c \in colors : c.col # col},
              signals |-> <<DataChanged(col, "BackgroundRole")>>]
        ELSE [colors |-> colors, signals |-> << >>]

\* the truth value Python gives to self.target_var
Truthy(target) == target # NoneVal /\ target # ""

\* DataSetViewer.change_target_var_color, tables.py:255-277; without a data
\* model the first call on it raises AttributeError
change_target_var_color(t, target) ==
  IF ~t.open /\ (Truthy(t.target_var) \/ target # NoTarget)
    THEN [t EXCEPT !.out = ViewerOutcome("change_target_var_color", 0, << >>,
                             "", target, FALSE, "AttributeError", << >>)]
    ELSE
      LET r1 == IF Truthy(t.target_var)
                  THEN reset_column_color(t.columns, t.column_colors,
                                          t.target_var)
                  ELSE [colors |-> t.column_colors, signals |-> << >>]
          r2 == IF target # NoTarget
                  THEN set_column_color_by_name(t.columns, r1.colors, target,
                                                "red")
                  ELSE [colors |-> r1.colors, signals |-> << >>]
      IN [t EXCEPT !.column_colors = r2.colors,
                   !.target_var = IF target # NoTarget THEN target ELSE NoneVal,
                   !.out = ViewerOutcome("change_target_var_color", 0, << >>,
                             "", target, FALSE, "none",
                             r1.signals \o r2.signals)]

\* DataSetViewer.open_dataset, tables.py:229-240: a new PandasModel without
\* colours; self.target_var is kept
open_dataset(t, name) ==
  [t EXCEPT !.open = TRUE,
            !.columns = TableData(name).columns,
            !.dtypes = TableData(name).dtypes,
            !.cells = TableData(name).cells,
            !.column_colors = {},
            !.out = ViewerOutcome("open_dataset", 0, << >>, "", "", FALSE,
                                  "none", << >>)]

EditTables == {"t1", "t2"}

Tables == {"t1", "t2", "t3"}

Roles == {"EditRole", "DisplayRole"}

\* the targets a caller may request
TargetArgs ==
  UNION {Range(TableData(name).columns) : name \in Tables}
    \cup {NoTarget, "zz"}

OpenTable(names) ==
  /\ \E name \in names : tv' = open_dataset(tv, name)
  /\ UNCHANGED <<appVars, viewVars, ctlVars, io, mp, gf, tr>>

SetData ==
  /\ tv.open
  /\ \E col \in DOMAIN tv.columns, value \in Texts, role \in Roles :
       \E accepts \in IF role = "EditRole" /\ tv.dtypes[col] = "datetime64"
                         THEN BOOLEAN ELSE {TRUE} :
         tv' = setData(tv, col, value, role, accepts)
  /\ UNCHANGED <<appVars, viewVars, ctlVars, io, mp, gf, tr>>

ChangeTargetVarColor ==
  /\ \E target \in TargetArgs : tv' = change_target_var_color(tv, target)
  /\ UNCHANGED <<appVars, viewVars, ctlVars, io, mp, gf, tr>>

EditNext == OpenTable(EditTables) \/ SetData

EditSpec == Init /\ [][EditNext]_vars

ColourNext == OpenTable(Tables) \/ ChangeTargetVarColor

ColourSpec == Init /\ [][ColourNext]_vars

\* ------------------------------------------------------------------ claims
SameTargetCall ==
  lastOp.pc = "set_target_var" /\ NewTarget(lastOp.s) = pre.target_var

SameSelectionCall ==
  lastOp.pc = "set_selected_features" /\ lastOp.fs = pre.selected_features

\* C1: set_target_var with the current target (None and '' count as
\* 'no target') and set_selected_features with the current set change no
\* field of AppState and emit no signal.
C1_SameValueIsNoOp ==
  (SameTargetCall \/ SameSelectionCall) => (Snapshot = pre /\ emitted = << >>)

C1_Witness ==
  /\ Idle
  /\ SameTargetCall
  /\ lastOp.s \in Names
  /\ df # NoDf
  /\ select_all_features_mode
  /\ selected_features # {}

\* C2: a refresh of the configuration view (update_menu,
\* update_selection_state) never emits select_all_toggled.
C2_RefreshNeverToggles == ~refreshToggled

NoSignalTwice ==
  \A i, j \in DOMAIN emitted : emitted[i].sig = emitted[j].sig => i = j

\* C3: the cascade a user action starts is finite and then the system is
\* quiescent; no signal is emitted a second time within one cascade.
C3_CascadeTerminates == [](NoSignalTwice) /\ (~Idle ~> Idle)

C3_Witness ==
  /\ Idle
  /\ lastOp.pc = "set_target_var"
  /\ \E i, j \in DOMAIN emitted :
       /\ emitted[i].sig = "target_var_changed"
       /\ emitted[j].sig = "target_var_selected"
  /\ \E k \in DOMAIN emitted : emitted[k].sig = "select_all_toggled"

\* C4: when a cascade has finished the feature menu lists exactly
\* get_features(), in order, and an entry is checked iff it is selected.
C4_MenuConsistent ==
  Idle =>
    /\ Len(fcb.menu) = Len(AppState_get_features)
    /\ \A i \in DOMAIN fcb.menu :
         /\ fcb.menu[i].text = AppState_get_features[i]
         /\ fcb.menu[i].checked <=> (fcb.menu[i].text \in selected_features)

C4_Witness ==
  /\ Idle
  /\ Len(fcb.menu) >= 2
  /\ \E i, j \in DOMAIN fcb.menu : fcb.menu[i].checked /\ ~fcb.menu[j].checked
  /\ lastOp.pc = "ui_choose_target"

\* C5: selected_features is a subset of get_features(); it never contains
\* the target.
C5_SelectedAreFeatures ==
  Idle => selected_features \subseteq Range(AppState_get_features)

LoadSucceeded ==
  /\ lastOp.pc = "load_dataset_from_path"
  /\ read_dataset_from_path(File(lastOp.s)).exc = "none"

\* C6: when a successful load returns, df is the dataset read, the target is
\* 'no target', nothing is selected and the select-all mode is off.
C6_LoadResets ==
  (Idle /\ LoadSucceeded) =>
    /\ df = File(lastOp.s).data
    /\ target_var = NoTarget
    /\ selected_features = {}
    /\ ~select_all_features_mode

C6_Witness ==
  /\ Idle
  /\ LoadSucceeded
  /\ pre.df # NoDf
  /\ pre.df # df
  /\ pre.target_var \in Range(df.columns)
  /\ pre.selected_features # {}
  /\ pre.select_all_features_mode

\* C7: get_features is empty without a dataset; with the target among the
\* columns it is every other column once, in column order, without the target.
C7_FeaturesAreOtherColumns ==
  gf.phase = "done" =>
    /\ gf.df = NoDf => gf.result = << >>
    /\ (gf.df # NoDf /\ gf.target \in Range(gf.df.columns)) =>
         LET cols == gf.df.columns
             idx == {j \in DOMAIN cols : cols[j] # gf.target} IN
           /\ Len(gf.result) = Cardinality(idx)
           /\ \A i \in DOMAIN gf.result :
                \E k \in idx : /\ Cardinality({j \in idx : j < k}) = i - 1
                               /\ gf.result[i] = cols[k]
           /\ gf.target \notin Range(gf.result)

C7_Witness ==
  /\ gf.phase = "done"
  /\ gf.df # NoDf
  /\ Len(gf.df.columns) = 3
  /\ gf.df.columns[2] = gf.target
  /\ gf.df.columns[1] # gf.target
  /\ Len(gf.result) = 2

IsUnsupported(suffix) ==
  \A b \in Supported : suffix \notin CaseVariants(b)

\* C8: save_dataframe_to_path raises ValueError for an unsupported
\* extension and writes nothing.
C8_SaveRejectsUnsupported ==
  (io.phase = "done" /\ io.op = "save" /\ IsUnsupported(io.file.suffix)) =>
    (io.exc = "ValueError" /\ io.calls = << >>)

MatchingReader(b) ==
  CASE b = SfxCsv -> "csv"
    [] b = SfxXls -> "excel"
    [] b = SfxXlsx -> "excel"
    [] b = SfxJson -> "json"
    [] b = SfxParquet -> "parquet"
    [] b = SfxFeather -> "feather"
    [] b = SfxH5 -> "hdf"
    [] b = SfxHdf5 -> "hdf"
    [] b = SfxPkl -> "pickle"

\* C9: a missing path raises FileNotFoundError whatever its suffix; an
\* existing file with a supported suffix in any letter case goes to exactly
\* the matching reader; any other suffix raises ValueError and no reader runs.
C9_ReadDispatch ==
  (io.phase = "done" /\ io.op = "read") =>
    /\ ~io.file.exists => (io.exc = "FileNotFoundError" /\ io.calls = << >>)
    /\ io.file.exists =>
         /\ \A b \in Supported :
              io.file.suffix \in CaseVariants(b) => io.calls = <<MatchingReader(b)>>
         /\ IsUnsupported(io.file.suffix) =>
              (io.exc = "ValueError" /\ io.calls = << >>)

C9_Witness ==
  /\ io.phase = "done" /\ io.op = "read"
  /\ io.file.exists
  /\ io.file.suffix = <<".", "P", "a", "r", "Q", "u", "e", "T">>
  /\ io.calls = <<"parquet">>
  /\ io.exc = "none"

HasUnknown(kwargs) == \E key \in DOMAIN kwargs : key \notin ParamNames

\* a value whose type is not the declared one and not within the numeric tower
WrongType(tag, expected) ==
  tag # "None" /\ tag # expected /\ <<tag, expected>> \notin LenientPairs

HasWrongType(kwargs) ==
  \E i \in DOMAIN ALL_PARAMS :
    /\ ALL_PARAMS[i].name \in DOMAIN kwargs
    /\ WrongType(kwargs[ALL_PARAMS[i].name], ALL_PARAMS[i].type)

AllRightTypes(kwargs) ==
  \A i \in DOMAIN ALL_PARAMS :
    ALL_PARAMS[i].name \in DOMAIN kwargs =>
      kwargs[ALL_PARAMS[i].name] \in {"None", ALL_PARAMS[i].type}

AllTenSet ==
  /\ DOMAIN mp.obj = ParamNames
  /\ \A p \in ParamNames :
       mp.obj[p] = IF p \in DOMAIN mp.kwargs THEN mp.kwargs[p] ELSE "None"

\* every value is of the declared type or plainly of another one
Unambiguous(kwargs) ==
  \A i \in DOMAIN ALL_PARAMS :
    ALL_PARAMS[i].name \in DOMAIN kwargs =>
      \/ kwargs[ALL_PARAMS[i].name] \in {"None", ALL_PARAMS[i].type}
      \/ WrongType(kwargs[ALL_PARAMS[i].name], ALL_PARAMS[i].type)

\* C10 as stated: an unknown keyword raises ValueError, a wrong type raises
\* TypeError, otherwise all ten parameters are set.
C10_Original ==
  (mp.phase = "done" /\ Unambiguous(mp.kwargs)) =>
    /\ HasUnknown(mp.kwargs) => mp.exc = "ValueError"
    /\ HasWrongType(mp.kwargs) => mp.exc = "TypeError"
    /\ (~HasUnknown(mp.kwargs) /\ AllRightTypes(mp.kwargs)) =>
         (mp.exc = "none" /\ AllTenSet)

\* C10 amended: the types are checked first, so an unknown keyword raises
\* ValueError only when no known parameter has a wrong type.
C10_TypesCheckedFirst ==
  mp.phase = "done" =>
    /\ HasWrongType(mp.kwargs) => mp.exc = "TypeError"
    /\ (HasUnknown(mp.kwargs) /\ AllRightTypes(mp.kwargs)) => mp.exc = "ValueError"
    /\ (~HasUnknown(mp.kwargs) /\ AllRightTypes(mp.kwargs)) =>
         (mp.exc = "none" /\ AllTenSet)

C10_Witness ==
  /\ mp.phase = "done"
  /\ HasUnknown(mp.kwargs)
  /\ HasWrongType(mp.kwargs)
  /\ mp.exc = "TypeError"

\* C11: train on an incomplete configuration raises ValueError, for a
\* missing model first and for missing params otherwise, constructs no
\* model and never calls fit
C11_TrainRefusesIncomplete ==
  tr.out.op = "train" =>
    /\ tr.model = NoneVal =>
          /\ tr.out.exc = "ValueError" /\ tr.out.msg = "Model is not set"
          /\ tr.out.built = << >> /\ tr.out.fits = 0
    /\ tr.model # NoneVal /\ ~tr.params.set =>
          /\ tr.out.exc = "ValueError" /\ tr.out.msg = "Params are not set"
          /\ tr.out.built = << >> /\ tr.out.fits = 0

C11_Witness ==
  /\ tr.out.op = "train" /\ tr.model = "Lasso_model" /\ ~tr.params.set
  /\ tr.out.exc = "ValueError"

\* C12: a successful train constructs one model of the current class whose
\* keyword arguments are exactly the supported parameters of the current
\* model that are not None in params, each with the value params holds
C12_ExactKwargs ==
  tr.out.op = "train" /\ tr.out.exc = "none" =>
    /\ Len(tr.out.built) = 1
    /\ tr.out.built[1].class = ModelClass(tr.model)
    /\ LET kwargs == tr.out.built[1].kwargs IN
         /\ DOMAIN kwargs = {p \in ModelsSupportedParams(tr.model) :
                               tr.params.obj[p] # "None"}
         /\ \A p \in DOMAIN kwargs : kwargs[p] = tr.params.obj[p]
         /\ tr.model = "Ridge_model" => "l1_ratio" \notin DOMAIN kwargs
         /\ tr.model = "Lasso_model" => "solver" \notin DOMAIN kwargs

C12_Witness ==
  /\ tr.out.op = "train" /\ tr.out.exc = "none"
  /\ tr.model = "Ridge_model"
  /\ tr.params.obj["l1_ratio"] # "None" /\ tr.params.obj["alpha"] # "None"
  /\ DOMAIN tr.out.built[1].kwargs = {"alpha"}

\* the typed text fails the validation of the column's dtype
FailsValidation(dtype, value) ==
  \/ dtype = "int64" /\ ~IsIntText(value)
  \/ dtype = "float64" /\ ~IsFloatText(value)
  \/ dtype = "object" /\ (isdigit(value) \/ isdigit(replace_first_dot(value)))

\* C13: setData with a role other than EditRole, or with a text that fails
\* the validation, returns False, leaves every cell as it was and emits no
\* dataChanged; a call that returns True is an edit with EditRole that
\* emits one dataChanged for the edited cell and changes no other cell
C13_RejectedEditChangesNothing ==
  [][tv'.out.op = "setData" =>
       LET o == tv'.out IN
         /\ o.role # "EditRole" \/ FailsValidation(tv.dtypes[o.col], o.value)
               => ~o.result
         /\ ~o.result => tv'.cells = tv.cells /\ o.dataChanged = << >>
         /\ o.result =>
               /\ o.role = "EditRole"
               /\ o.dataChanged = <<DataChanged(o.col, "DisplayRole")>>
               /\ \A c \in DOMAIN tv.cells : c # o.col =>
                     tv'.cells[c] = tv.cells[c]]_vars

C13_Witness ==
  /\ tv.out.op = "setData" /\ tv.out.role = "EditRole" /\ ~tv.out.result
  /\ tv.dtypes[tv.out.col] = "int64" /\ tv.out.value = <<"1", ".">>
  /\ tv.cells[tv.out.col] = IntCell(-1)

C15_StackFollowsLoad ==
  /\ df = NoDf => stack_index = 0
  /\ Idle /\ df # NoDf => stack_index = 1

LoadFailed ==
  /\ lastOp.pc = "load_dataset_from_path"
  /\ read_dataset_from_path(File(lastOp.s)).exc # "none"

C15_Witness ==
  /\ Idle /\ LoadFailed
  /\ df # NoDf /\ stack_index = 1

ResetCall == lastOp.pc = "set_target_var" /\ lastOp.s \in {NoneVal, ""}

\* C16: set_target_var(None) and set_target_var('') leave the target at
\* 'no target'; target_var_changed is emitted if the target was another one
\* before, and every target_var_changed of the call carries 'no target'
C16_NoneAndEmptyReset ==
  ResetCall =>
    /\ \A i \in DOMAIN emitted :
         emitted[i].sig = "target_var_changed" => emitted[i].s = NoTarget
    /\ Idle =>
         /\ target_var = NoTarget
         /\ pre.target_var # NoTarget =>
               \E i \in DOMAIN emitted : emitted[i].sig = "target_var_changed"

C16_Witness ==
  /\ Idle /\ ResetCall /\ lastOp.s = ""
  /\ pre.target_var \in Names
  /\ \E i \in DOMAIN emitted : emitted[i] = Sig("target_var_changed", NoTarget, {})

\* C17: a load whose read raises changes none of df, dataset_path,
\* target_var, selected_features and the select-all mode, and emits
\* error_occurred once and no other signal
C17_FailedLoadChangesNothing ==
  LoadFailed =>
    /\ Snapshot = pre
    /\ \A i \in DOMAIN emitted : emitted[i].sig = "error_occurred"
    /\ Len(emitted) <= 1
    /\ Idle => emitted = <<Sig("error_occurred", lastOp.s, {})>>

C17_Witness ==
  /\ Idle /\ LoadFailed
  /\ pre.df # NoDf /\ pre.target_var # NoTarget
  /\ pre.selected_features # {} /\ pre.select_all_features_mode
  /\ Len(emitted) = 1

\* set_target_var is called in "Select All" mode with another target
TargetChangeInSelectAll ==
  /\ lastOp.pc = "set_target_var"
  /\ pre.select_all_features_mode
  /\ NewTarget(lastOp.s) # pre.target_var

\* C18: when set_target_var changes the target in "Select All" mode, on
\* return the mode is still on and the selection is the set of all features
\* under the new target: without the new target, with the previous one
C18_SelectAllSurvivesTargetChange ==
  Idle /\ TargetChangeInSelectAll =>
    /\ select_all_features_mode
    /\ selected_features = Range(AppState_get_features)
    /\ target_var \notin selected_features
    /\ target_var \in Range(df.columns) /\ pre.target_var \in Range(df.columns)
         => pre.target_var \in selected_features

C18_Witness ==
  /\ Idle /\ TargetChangeInSelectAll
  /\ target_var \in Range(df.columns) /\ pre.target_var \in Range(df.columns)
  /\ pre.target_var \in selected_features
  /\ select_all_features_mode

\* a single selected feature is deselected in "Select All" mode
DeselectInSelectAll ==
  /\ lastOp.pc \in {"toggle_feature_selection", "ui_click_feature"}
  /\ ~lastOp.b
  /\ pre.select_all_features_mode
  /\ lastOp.s \in pre.selected_features

\* C19: without direct calls of set_selected_features, in every quiescent
\* state with the "Select All" mode on the selection is the set of all
\* features, and deselecting one feature in that mode turns the mode off
C19_ModeMeansAllSelected ==
  Idle =>
    /\ select_all_features_mode =>
         selected_features = Range(AppState_get_features)
    /\ DeselectInSelectAll => ~select_all_features_mode

C19_Witness ==
  /\ Idle /\ DeselectInSelectAll
  /\ lastOp.pc = "toggle_feature_selection"
  /\ Cardinality(pre.selected_features) >= 2
  /\ ~select_all_features_mode

TargetChangeCall ==
  /\ lastOp.pc \in {"set_target_var", "ui_choose_target"}
  /\ NewTarget(lastOp.s) # pre.target_var

IsAppStateSignal(e) ==
  e.sig \in {"target_var_changed", "features_list_changed",
             "selected_features_changed", "dataset_loaded", "error_occurred"}

\* the signals of AppState among the emitted ones, in order
AppStateLog == SelectSeq(emitted, IsAppStateSignal)

Count(log, sig) == Cardinality({i \in DOMAIN log : log[i].sig = sig})

\* C21: in a set_target_var call that changes the target,
\* target_var_changed is the first signal of AppState and is emitted once,
\* features_list_changed is emitted once, and no selected_features_changed
\* follows features_list_changed
C21_TargetChangeSignalOrder ==
  TargetChangeCall =>
    /\ AppStateLog # << >> => AppStateLog[1].sig = "target_var_changed"
    /\ Count(AppStateLog, "target_var_changed") <= 1
    /\ Count(AppStateLog, "features_list_changed") <= 1
    /\ Idle => /\ Count(AppStateLog, "target_var_changed") = 1
               /\ Count(AppStateLog, "features_list_changed") = 1
    /\ \A i, j \in DOMAIN AppStateLog :
         i < j /\ AppStateLog[i].sig = "features_list_changed"
           => AppStateLog[j].sig # "selected_features_changed"

\* C22: when dataset_loaded is about to be emitted nothing is selected,
\* the "Select All" mode is off and the target is already 'no target'
C22_DatasetLoadedSeesResetState ==
  At("emit_dataset_loaded") =>
    /\ selected_features = {}
    /\ ~select_all_features_mode
    /\ target_var = NoTarget

====
